---- MODULE Spec2Model ----
(***************************************************************************)
(* A model of mailer/main.py: the template parser, the substitution        *)
(* engine (list_variables, fill_variables, fill_placeholders, with         *)
(* str.format_map and eval modelled on the characters the templates use),  *)
(* the message builder and the dispatch loop of main().                    *)
(*                                                                         *)
(* A Python string is a sequence of one-character strings; the template    *)
(* markers "<From>", "<Body>", ... are single tokens of such a sequence.   *)
(* A Python exception is the field err of an operator's result ("ok" when  *)
(* nothing was raised).                                                    *)
(***************************************************************************)
EXTENDS Integers, Sequences, FiniteSets, TLC

VARIABLES
    pc,            \* position of the control flow in main()
    template,      \* the template file: a sequence of lines
    csv_read,      \* the recipient table as get_csv_data reads it
    config,        \* main.py:144 the pacing configuration
    email_parts,   \* main.py:145 the five sections, placeholders intact
    expressions,   \* main.py:145 the expression table, in insertion order
    csv_data,      \* main.py:149 the recipient records (dicts, mutable)
    row,           \* main.py:156 index of the record the build loop is at
    filled,        \* main.py:157 what the last fill_placeholders returned
    emails,        \* main.py:155 the built messages
    sock,          \* the connection of the SMTP object: "none", "plain", "tls"
    k,             \* main.py:164 index in emails of the message of the loop
    i,             \* main.py:163 the progress counter
    printed,       \* main.py:168,179 the counts printed, in order
    raised,        \* the exception in flight or that ended the run, or "none"
    log            \* history: the calls made on the transport and time.sleep

vars == <<pc, template, csv_read, config, email_parts, expressions, csv_data,
          row, filled, emails, sock, k, i, printed, raised, log>>

(***************************************************************************)
(* Characters and small string helpers.                                    *)
(***************************************************************************)
Digits == {"0", "1", "2", "3", "4", "5", "6", "7", "8", "9"}
Letters == {"a", "b", "n", "x", "y"}
Braces == {"{", "}"}
Quote == "'"

PartOrder == <<"From", "To", "Cc", "Subject", "Body">>
PartNames == {"From", "To", "Cc", "Subject", "Body"}

SubStr(s, a, b) == IF b < a THEN <<>> ELSE SubSeq(s, a, b)
From(s, a) == SubStr(s, a, Len(s))

\* the first position p >= a with s[p] \in cs, or Len(s)+1
RECURSIVE Find(_, _, _)
Find(s, a, cs) ==
    IF a > Len(s) THEN Len(s) + 1
    ELSE IF s[a] \in cs THEN a
    ELSE Find(s, a + 1, cs)

\* the first position p >= a with s[p] \notin cs, or Len(s)+1
RECURSIVE Span(_, _, _)
Span(s, a, cs) ==
    IF a > Len(s) THEN Len(s) + 1
    ELSE IF s[a] \notin cs THEN a
    ELSE Span(s, a + 1, cs)

At(s, p) == IF p >= 1 /\ p <= Len(s) THEN s[p] ELSE "EOS"

\* The({F(x) : x \in {e}}) is F(e) with e evaluated once
The(set) == CHOOSE x \in set : TRUE

DigitOf(d) == CASE d = 0 -> "0" [] d = 1 -> "1" [] d = 2 -> "2" [] d = 3 -> "3"
                [] d = 4 -> "4" [] d = 5 -> "5" [] d = 6 -> "6" [] d = 7 -> "7"
                [] d = 8 -> "8" [] d = 9 -> "9"

ValOfDigit(c) == CHOOSE d \in 0..9 : DigitOf(d) = c

\* str(n) for a natural number n
RECURSIVE IntToStr(_)
IntToStr(n) == IF n < 10 THEN <<DigitOf(n)>>
               ELSE IntToStr(n \div 10) \o <<DigitOf(n % 10)>>

\* int(s) for a digit string s
RECURSIVE StrToInt(_)
StrToInt(s) == IF s = <<>> THEN 0
               ELSE 10 * StrToInt(SubStr(s, 1, Len(s) - 1)) + ValOfDigit(s[Len(s)])

(***************************************************************************)
(* Python values: a str, an int, a one-element set, the empty dict.        *)
(***************************************************************************)
StrV(s) == [t |-> "str", s |-> s, i |-> 0]
IntV(n) == [t |-> "int", s |-> <<>>, i |-> n]
SetV(r) == [t |-> "set", s |-> r, i |-> 0]      \* s: repr of the element
DictV   == [t |-> "dict", s |-> <<>>, i |-> 0]
ErrV(e) == [t |-> e, s |-> <<>>, i |-> 0]       \* a raised exception
IsVal(v) == v.t \in {"str", "int", "set", "dict"}

\* repr(v) of a str or an int
Repr(v) == IF v.t = "int" THEN IntToStr(v.i)
           ELSE IF Quote \in {v.s[p] : p \in 1..Len(v.s)}
                THEN <<"\"">> \o v.s \o <<"\"">>
                ELSE <<Quote>> \o v.s \o <<Quote>>

\* format(v, ''), which is str(v)
Str(v) == CASE v.t = "str" -> v.s
            [] v.t = "int" -> IntToStr(v.i)
            [] v.t = "set" -> <<"{">> \o v.s \o <<"}">>
            [] v.t = "dict" -> <<"{", "}">>

(***************************************************************************)
(* list_variables: the set of the regex matches of an opening brace, any  *)
(* characters that are not braces (the name) and a closing brace.  The     *)
(* scan is leftmost and non-overlapping: at a "{" whose next brace is a    *)
(* "}" the text between them is a name and the scan resumes after the "}"; *)
(* at any other position it moves one character on.                        *)
(***************************************************************************)
RECURSIVE FindAll(_, _)
FindAll(s, a) ==
    IF a > Len(s) THEN {}
    ELSE LET e == Find(s, a + 1, Braces) IN
         IF s[a] = "{" /\ At(s, e) = "}"
         THEN {SubStr(s, a + 1, e - 1)} \cup FindAll(s, e + 1)
         ELSE FindAll(s, a + 1)

list_variables(string) == FindAll(string, 1)

(***************************************************************************)
(* replace_placeholders: string.format_map(variables).  str.format reads   *)
(* the string left to right: "{{" and "}}" are the literal braces, a lone  *)
(* "}" is a ValueError, a "{" opens a replacement field that runs to the   *)
(* next "}" (a "{" inside it, or no "}" at all, is a ValueError); an empty *)
(* or all-digit field name is positional, which format_map refuses with a  *)
(* ValueError; any other name is looked up (KeyError when absent) and      *)
(* replaced by format(value, '').  The first error met ends the call.      *)
(***************************************************************************)
RECURSIVE Format(_, _, _, _)
Format(s, a, variables, out) ==
    IF a > Len(s) THEN [err |-> "ok", val |-> out]
    ELSE IF s[a] = "{" THEN
        IF At(s, a + 1) = "{" THEN Format(s, a + 2, variables, out \o <<"{">>)
        ELSE LET e == Find(s, a + 1, Braces)
                 name == SubStr(s, a + 1, e - 1)
             IN  IF At(s, e) # "}" THEN [err |-> "ValueError", val |-> <<>>]
                 ELSE IF Span(name, 1, Digits) > Len(name)
                      THEN [err |-> "ValueError", val |-> <<>>]
                 ELSE IF name \notin DOMAIN variables
                      THEN [err |-> "KeyError", val |-> <<>>]
                 ELSE Format(s, e + 1, variables, out \o Str(variables[name]))
    ELSE IF s[a] = "}" THEN
        IF At(s, a + 1) = "}" THEN Format(s, a + 2, variables, out \o <<"}">>)
        ELSE [err |-> "ValueError", val |-> <<>>]
    ELSE Format(s, a + 1, variables, out \o <<s[a]>>)

replace_placeholders(string, variables) == Format(string, 1, variables, <<>>)

(***************************************************************************)
(* fill_variables: the dict handed to format_map holds only the keys that  *)
(* list_variables found in the string.                                     *)
(***************************************************************************)
fill_variables(string, variables) ==
    The({The({replace_placeholders(string, vs) :
                vs \in {[key \in (DOMAIN variables) \cap used_vars |-> variables[key]]}}) :
           used_vars \in {list_variables(string)}})

(***************************************************************************)
(* eval, on the expressions that can be written with digits, letters,      *)
(* "+", quotes and braces:                                                 *)
(*   expr  ::= unary ("+" unary)*                                          *)
(*   unary ::= "+" unary | atom                                            *)
(*   atom  ::= digits | string+ | name | "{" "}" | "{" expr "}"            *)
(* A string is single-quoted or triple-quoted; adjacent strings are        *)
(* concatenated.  A text that is not an expr is a SyntaxError, raised      *)
(* before anything is evaluated.  Evaluation is left to right and the      *)
(* first exception wins: a name is a NameError (no such name is in scope   *)
(* of the eval call), "+" wants two ints or two strs, unary "+" an int, a  *)
(* set display a hashable element (TypeError otherwise).                   *)
(* Each parser returns [syn, v, p]: syn is FALSE on a syntax error, v the  *)
(* value or the exception of evaluating what was read, p the position      *)
(* after it.                                                               *)
(***************************************************************************)
SynErr == [syn |-> FALSE, v |-> ErrV("SyntaxError"), p |-> 0]

Add(u, w) ==
    IF ~IsVal(u) THEN u
    ELSE IF ~IsVal(w) THEN w
    ELSE IF u.t = "int" /\ w.t = "int" THEN IntV(u.i + w.i)
    ELSE IF u.t = "str" /\ w.t = "str" THEN StrV(u.s \o w.s)
    ELSE ErrV("TypeError")

Pos(u) == IF ~IsVal(u) THEN u
          ELSE IF u.t = "int" THEN u ELSE ErrV("TypeError")

Display(u) == IF ~IsVal(u) THEN u
              ELSE IF u.t \in {"int", "str"} THEN SetV(Repr(u))
              ELSE ErrV("TypeError")

\* the first position q >= a where three quotes start, or Len(s)+1
RECURSIVE FindTriple(_, _)
FindTriple(s, a) ==
    IF a > Len(s) THEN Len(s) + 1
    ELSE IF s[a] = Quote /\ At(s, a + 1) = Quote /\ At(s, a + 2) = Quote THEN a
    ELSE FindTriple(s, a + 1)

\* one or more adjacent string literals starting at a; acc is their content
RECURSIVE ParseStrings(_, _, _)
ParseStrings(s, a, acc) ==
    IF At(s, a) # Quote THEN
        IF At(s, a) \in Letters \cup Digits THEN SynErr
        ELSE [syn |-> TRUE, v |-> StrV(acc), p |-> a]
    ELSE IF At(s, a + 1) = Quote /\ At(s, a + 2) = Quote THEN
        LET e == FindTriple(s, a + 3) IN
        IF e > Len(s) THEN SynErr
        ELSE ParseStrings(s, e + 3, acc \o SubStr(s, a + 3, e - 1))
    ELSE
        LET e == Find(s, a + 1, {Quote}) IN
        IF e > Len(s) THEN SynErr
        ELSE ParseStrings(s, e + 1, acc \o SubStr(s, a + 1, e - 1))

RECURSIVE ParseExpr(_, _)
RECURSIVE ParseUnary(_, _)
RECURSIVE ParseAtom(_, _)
RECURSIVE ParseSum(_, _)

ParseAtom(s, a) ==
    LET c == At(s, a) IN
    IF c \in Digits THEN
        LET e == Span(s, a, Digits) IN
        IF At(s, e) \in Letters \cup {Quote} THEN SynErr
        ELSE [syn |-> TRUE, v |-> IntV(StrToInt(SubStr(s, a, e - 1))), p |-> e]
    ELSE IF c = Quote THEN ParseStrings(s, a, <<>>)
    ELSE IF c \in Letters THEN
        LET e == Span(s, a, Letters \cup Digits) IN
        IF At(s, e) = Quote THEN SynErr
        ELSE [syn |-> TRUE, v |-> ErrV("NameError"), p |-> e]
    ELSE IF c = "{" THEN
        IF At(s, a + 1) = "}" THEN [syn |-> TRUE, v |-> DictV, p |-> a + 2]
        ELSE The({IF ~r.syn \/ At(s, r.p) # "}" THEN SynErr
                  ELSE [syn |-> TRUE, v |-> Display(r.v), p |-> r.p + 1] :
                    r \in {ParseExpr(s, a + 1)}})
    ELSE SynErr

ParseUnary(s, a) ==
    IF At(s, a) = "+" THEN
        The({IF ~r.syn THEN SynErr ELSE [syn |-> TRUE, v |-> Pos(r.v), p |-> r.p] :
               r \in {ParseUnary(s, a + 1)}})
    ELSE ParseAtom(s, a)

\* the ("+" unary)* after the operand r
ParseSum(s, r) ==
    IF ~r.syn THEN SynErr
    ELSE IF At(s, r.p) # "+" THEN r
    ELSE The({IF ~u.syn THEN SynErr
              ELSE The({ParseSum(s, sum) :
                          sum \in {[syn |-> TRUE, v |-> Add(r.v, u.v), p |-> u.p]}}) :
                u \in {ParseUnary(s, r.p + 1)}})

ParseExpr(s, a) == The({ParseSum(s, r) : r \in {ParseUnary(s, a)}})

\* eval(source): [err, val]
eval(source) ==
    The({IF ~r.syn \/ r.p # Len(source) + 1
         THEN [err |-> "SyntaxError", val |-> ErrV("SyntaxError")]
         ELSE IF IsVal(r.v) THEN [err |-> "ok", val |-> r.v]
         ELSE [err |-> r.v.t, val |-> r.v] :
           r \in {ParseExpr(source, 1)}})

(***************************************************************************)
(* A dict that is iterated (the expression table) is a sequence of         *)
(* <<key, value>> pairs in insertion order; d[key] = value overwrites in   *)
(* place or appends.  A recipient record is a function from its column     *)
(* names to values.                                                        *)
(***************************************************************************)
Keys(d) == {d[j][1] : j \in 1..Len(d)}

DictSet(d, key, value) ==
    IF key \in Keys(d)
    THEN [j \in 1..Len(d) |-> IF d[j][1] = key THEN <<key, value>> ELSE d[j]]
    ELSE Append(d, <<key, value>>)

DictGet(d, key) == LET j == CHOOSE j \in 1..Len(d) : d[j][1] = key IN d[j][2]

\* variables.update(expr)
Update(variables, expr) ==
    [key \in (DOMAIN variables) \cup Keys(expr) |->
        IF key \in Keys(expr) THEN DictGet(expr, key) ELSE variables[key]]

NoSections == [p \in {} |-> <<>>]

(***************************************************************************)
(* fill_placeholders.  Line 46 evaluates the expressions in table order    *)
(* against the record as passed in; line 47 merges the results into that   *)
(* same dict object; line 48 fills the sections in the order of            *)
(* email_parts.  An exception leaves the function at the first place it is *)
(* raised: in line 46 before the merge, in line 48 after it.  The result   *)
(* is [err, variables, val]: variables is the caller's dict afterwards,    *)
(* val the returned sections (NoSections when nothing is returned).        *)
(***************************************************************************)
RECURSIVE EvalExpressions(_, _, _, _)
EvalExpressions(exprs, j, variables, acc) ==
    IF j > Len(exprs) THEN [err |-> "ok", val |-> acc]
    ELSE The({IF f.err # "ok" THEN [err |-> f.err, val |-> <<>>]
              ELSE The({IF e.err # "ok" THEN [err |-> e.err, val |-> <<>>]
                        ELSE The({EvalExpressions(exprs, j + 1, variables, acc2) :
                                    acc2 \in {DictSet(acc, exprs[j][1], e.val)}}) :
                          e \in {eval(f.val)}}) :
                f \in {fill_variables(exprs[j][2], variables)}})

RECURSIVE FillParts(_, _, _, _)
FillParts(parts, j, variables, acc) ==
    IF j > Len(PartOrder) THEN [err |-> "ok", val |-> acc]
    ELSE The({IF f.err # "ok" THEN [err |-> f.err, val |-> NoSections]
              ELSE The({FillParts(parts, j + 1, variables, acc2) :
                          acc2 \in {[acc EXCEPT ![PartOrder[j]] = f.val]}}) :
                f \in {fill_variables(parts[PartOrder[j]], variables)}})

fill_placeholders(parts, variables, exprs) ==
    The({IF expr.err # "ok"
         THEN [err |-> expr.err, variables |-> variables, val |-> NoSections]
         ELSE The({The({[err |-> f.err, variables |-> merged, val |-> f.val] :
                          f \in {FillParts(parts, 1, merged, parts)}}) :
                     merged \in {Update(variables, expr.val)}}) :
           expr \in {EvalExpressions(exprs, 1, variables, <<>>)}})

(***************************************************************************)
(* build_mail and html_body.  The message is the record of what is put in  *)
(* it: the four headers, the plain body with every line break doubled, the *)
(* attachment, and the HTML alternative with two <br> per line break and   *)
(* the signature in the footer.                                            *)
(***************************************************************************)
RECURSIVE Replace(_, _, _)
Replace(s, c, by) ==
    IF s = <<>> THEN <<>>
    ELSE (IF Head(s) = c THEN by ELSE <<Head(s)>>) \o Replace(Tail(s), c, by)

html_body(body, signature) ==
    <<"<html><head></head><body><p>">> \o Replace(body, "\n", <<"<br>", "<br>">>)
        \o <<"</p></body><footer>">> \o signature \o <<"</footer></html>">>

build_mail(pdf, pdf_name, signature, raw_template) ==
    [headers |-> [key \in PartNames \ {"Body"} |-> raw_template[key]],
     content |-> Replace(raw_template["Body"], "\n", <<"\n", "\n">>),
     attachment |-> [data |-> pdf, filename |-> pdf_name],
     html |-> html_body(raw_template["Body"], signature)]

(***************************************************************************)
(* parse_template.  A line of the file is a sequence of characters without *)
(* its line terminator; a marker is one token, so that line[6:] after      *)
(* "<From>" (and line[13:], line[4:], line[9:] after the other markers) is *)
(* the line without its first token.                                       *)
(***************************************************************************)
Space == {" ", "\t"}

RECURSIVE rstrip(_)
rstrip(s) == IF s # <<>> /\ s[Len(s)] \in Space
             THEN rstrip(SubStr(s, 1, Len(s) - 1)) ELSE s

strip(s) == rstrip(From(s, Span(s, 1, Space)))

\* s.split(';')
RECURSIVE split(_)
split(s) ==
    LET e == Find(s, 1, {";"}) IN
    IF e > Len(s) THEN <<s>>
    ELSE <<SubStr(s, 1, e - 1)>> \o split(From(s, e + 1))

SectionMarkers == {"<From>", "<To>", "<Cc>", "<Subject>"}

PartOf(marker) == CASE marker = "<From>" -> "From" [] marker = "<To>" -> "To"
                    [] marker = "<Cc>" -> "Cc" [] marker = "<Subject>" -> "Subject"

\* the state of the loop of parse_template before the first line
ParseInit ==
    [err |-> "ok",
     email_parts |-> [p \in PartNames |-> <<>>],
     current_part |-> "None",
     expressions |-> <<>>]

\* section_line with the bug of leaving the current section as it was
section_line_KeepPart(st, line) ==
    [st EXCEPT !.email_parts[PartOf(Head(line))] = strip(Tail(line))]

\* lines 112-123: a section marker makes its section the current one and
\* sets it to the rest of the line
section_line(st, line) ==
    [st EXCEPT !.current_part = PartOf(Head(line)),
               !.email_parts[PartOf(Head(line))] = strip(Tail(line))]

\* lines 107-111: an expression line adds "name;value" to the table; a
\* line without ";" raises IndexError at expr[1]
expression_line(st, line) ==
    The({IF Len(expr) < 2 THEN [st EXCEPT !.err = "IndexError"]
         ELSE [st EXCEPT !.expressions =
                  DictSet(st.expressions, strip(expr[1]), strip(expr[2]))] :
           expr \in {split(Tail(line))}})

\* lines 105-128: the branches of one iteration, on the trimmed line
parse_stripped(st, line) ==
    IF st.err # "ok" THEN st
    ELSE IF At(line, 1) = "#" THEN st
    ELSE IF At(line, 1) = "<Expressions>" THEN expression_line(st, line)
    ELSE IF At(line, 1) \in SectionMarkers THEN section_line(st, line)
    ELSE IF At(line, 1) = "<Body>" THEN [st EXCEPT !.current_part = "Body"]
    ELSE IF st.current_part = "Body"
         THEN [st EXCEPT !.email_parts["Body"] = @ \o line \o <<"\n">>]
    ELSE st

\* line 104 and then the branches
parse_line(st, raw) == The({parse_stripped(st, line) : line \in {strip(raw)}})

RECURSIVE ParseLines(_, _, _)
ParseLines(lines, j, st) ==
    IF j > Len(lines) THEN st
    ELSE The({ParseLines(lines, j + 1, st2) : st2 \in {parse_line(st, lines[j])}})

parse_template(lines) == ParseLines(lines, 1, ParseInit)

(***************************************************************************)
(* Bounds and inputs of the runs of main().                                *)
(***************************************************************************)
MaxRows == 3        \* rows of the recipient table

S(c) == <<c>>       \* a one-character name

\* main.py:146-148 the signature, the attachment and its name
Signature == <<"s">>
Pdf == <<"%PDF">>
PdfName == <<"a", ".", "p", "d", "f">>

\* template files: one with a derived expression x = n + 3, one without
TemplateWithExpr ==
    << <<"<From>", "a">>,
       <<"<Expressions>", "x", ";", "{", "n", "}", "+", "3">>,
       <<"<To>", "{", "n", "}">>,
       <<"<Body>">>,
       <<"a", "{", "x", "}">> >>

TemplatePlain ==
    << <<"<To>", "{", "n", "}">>,
       <<"<Subject>", "b">>,
       <<"<Body>">>,
       <<"a">>,
       <<"{", "n", "}">> >>

MainTemplates == {TemplateWithExpr, TemplatePlain}

\* recipient records: n is a number, n is a word, or the table has no column n
RecNum  == (S("n") :> StrV(<<"3">>))
RecWord == (S("n") :> StrV(<<"b">>))
RecOther == (S("a") :> StrV(<<"3">>))
MainRecords == {RecNum, RecWord, RecOther}

\* csv.DictReader gives every row the keys of the header row
Tables(records, lo, hi) ==
    UNION {{t \in [1..m -> records] :
              \A p, q \in 1..m : DOMAIN t[p] = DOMAIN t[q]} : m \in lo..hi}

\* main.py:170-171 time_between_mails and variance_between_mails
PacingOk == [mean |-> 2, variance |-> 1]
PacingWide == [mean |-> 1, variance |-> 2]

NoParts == [p \in PartNames |-> <<>>]

inputvars == <<template, csv_read, config>>
parsevars == <<email_parts, expressions>>
buildvars == <<csv_data, row, filled, emails>>
loopvars == <<k, i, printed>>

\* the state main() starts in, given the files it will read
InitWith(templates, tables, configs) ==
    /\ pc = "start"
    /\ template \in templates
    /\ csv_read \in tables
    /\ config \in configs
    /\ email_parts = NoParts
    /\ expressions = <<>>
    /\ csv_data = <<>>
    /\ row = 1
    /\ filled = NoSections
    /\ emails = <<>>
    /\ sock = "none"
    /\ k = 1
    /\ i = 0
    /\ printed = <<>>
    /\ raised = "none"
    /\ log = <<>>

Init == InitWith(MainTemplates, Tables(MainRecords, 0, MaxRows),
                 {PacingOk, PacingWide})

\* an entry of the log: the call, the message it sends (0 if none), the result
Event(op, msg, res) == [op |-> op, msg |-> msg, res |-> res]

\* Leave with the bug of a block that is not a with block
Leave_NoExit(e) == raised' = e /\ pc' = "done"

\* an exception leaves main(): outside the with block the run is over,
\* inside it the __exit__ of the SMTP object runs first
Crash(e) == raised' = e /\ pc' = "done"
Leave(e) == raised' = e /\ pc' = "exit"

\* lines 144-153: read the configuration, the template and the table
Start ==
    /\ pc = "start"
    /\ \E st \in {parse_template(template)} :
       IF st.err # "ok"
       THEN /\ Crash(st.err)
            /\ UNCHANGED <<email_parts, expressions, csv_data>>
       ELSE /\ email_parts' = st.email_parts
            /\ expressions' = st.expressions
            /\ csv_data' = csv_read
            /\ pc' = "build"
            /\ UNCHANGED raised
    /\ UNCHANGED <<inputvars, row, filled, emails, sock, loopvars, log>>

\* BuildOne with the bug of skipping a record whose fill fails
BuildOne_SkipFailed ==
    /\ pc = "build"
    /\ row <= Len(csv_data)
    /\ \E f \in {fill_placeholders(email_parts, csv_data[row], expressions)} :
       /\ csv_data' = [csv_data EXCEPT ![row] = f.variables]
       /\ filled' = f.val
       /\ row' = row + 1
       /\ emails' = IF f.err # "ok" THEN emails
                    ELSE Append(emails, build_mail(Pdf, PdfName, Signature, f.val))
    /\ UNCHANGED <<inputvars, parsevars, sock, loopvars, log, pc, raised>>

\* lines 156-158: fill and build the message of the next record
BuildOne ==
    /\ pc = "build"
    /\ row <= Len(csv_data)
    /\ \E f \in {fill_placeholders(email_parts, csv_data[row], expressions)} :
       /\ csv_data' = [csv_data EXCEPT ![row] = f.variables]
       /\ filled' = f.val
       /\ IF f.err # "ok"
          THEN Crash(f.err) /\ UNCHANGED <<row, emails>>
          ELSE /\ emails' = Append(emails, build_mail(Pdf, PdfName, Signature, f.val))
               /\ row' = row + 1
               /\ UNCHANGED <<pc, raised>>
    /\ UNCHANGED <<inputvars, parsevars, sock, loopvars, log>>

\* line 160: SMTP(host, port) connects
Connect ==
    /\ pc = "build"
    /\ row > Len(csv_data)
    /\ \/ /\ sock' = "plain"
          /\ log' = Append(log, Event("open", 0, "ok"))
          /\ pc' = "starttls"
          /\ UNCHANGED raised
       \/ /\ log' = Append(log, Event("open", 0, "OSError"))
          /\ Crash("OSError")
          /\ UNCHANGED sock
    /\ UNCHANGED <<inputvars, parsevars, buildvars, loopvars>>

\* line 161: smtp.starttls()
StartTls ==
    /\ pc = "starttls"
    /\ \/ /\ sock' = "tls"
          /\ log' = Append(log, Event("starttls", 0, "ok"))
          /\ pc' = "login"
          /\ UNCHANGED raised
       \/ /\ log' = Append(log, Event("starttls", 0, "SMTPException"))
          /\ Leave("SMTPException")
          /\ UNCHANGED sock
    /\ UNCHANGED <<inputvars, parsevars, buildvars, loopvars>>

\* lines 162-163: smtp.login(**login); i = 1
Login ==
    /\ pc = "login"
    /\ \/ /\ log' = Append(log, Event("login", 0, "ok"))
          /\ pc' = "loop"
          /\ i' = 1
          /\ UNCHANGED raised
       \/ /\ log' = Append(log, Event("login", 0, "SMTPAuthenticationError"))
          /\ Leave("SMTPAuthenticationError")
          /\ UNCHANGED i
    /\ UNCHANGED <<inputvars, parsevars, buildvars, sock, k, printed>>

\* lines 172 and 183: the pacing interval is drawn from
\* [mean - variance, mean + variance]
SleepTimes == (config.mean - config.variance)..(config.mean + config.variance)

\* lines 166-169: the first send of emails[k] is accepted
SendOk ==
    /\ pc = "loop"
    /\ k <= Len(emails)
    /\ log' = Append(log, Event("send", k, "ok"))
    /\ printed' = Append(printed, i)
    /\ i' = i + 1
    /\ pc' = "sleep"
    /\ UNCHANGED <<inputvars, parsevars, buildvars, sock, k, raised>>

\* line 166 raises SMTPSenderRefused and line 174 catches it
SendRefused ==
    /\ pc = "loop"
    /\ k <= Len(emails)
    /\ log' = Append(log, Event("send", k, "SMTPSenderRefused"))
    /\ pc' = "reconnect"
    /\ UNCHANGED <<inputvars, parsevars, buildvars, sock, loopvars, raised>>

\* line 166 raises another exception: line 174 does not match it
SendFail ==
    /\ pc = "loop"
    /\ k <= Len(emails)
    /\ log' = Append(log, Event("send", k, "SMTPException"))
    /\ raised' = "SMTPException"
    /\ pc' = "except_e"
    /\ UNCHANGED <<inputvars, parsevars, buildvars, sock, loopvars>>

\* lines 170-173: the pacing sleep inside the try block; time.sleep
\* raises ValueError for a negative interval
Sleep ==
    /\ pc = "sleep"
    /\ \E t \in SleepTimes :
         IF t >= 0
         THEN /\ log' = Append(log, Event("sleep", 0, "ok"))
              /\ k' = k + 1
              /\ pc' = "loop"
              /\ UNCHANGED raised
         ELSE /\ log' = Append(log, Event("sleep", 0, "ValueError"))
              /\ raised' = "ValueError"
              /\ pc' = "except_e"
              /\ UNCHANGED k
    /\ UNCHANGED <<inputvars, parsevars, buildvars, sock, i, printed>>

\* ExceptE with the bug of logging the failure and going on with the next
\* message
ExceptE_Continue ==
    /\ pc = "except_e"
    /\ raised' = "none"
    /\ k' = k + 1
    /\ pc' = "loop"
    /\ UNCHANGED <<inputvars, parsevars, buildvars, sock, i, printed, log>>

\* line 185: "except e" evaluates the name e, a local of main() that is not
\* bound here (line 174 binds it and unbinds it when the handler ends): the
\* clause raises UnboundLocalError and lines 186-187 never run
ExceptE ==
    /\ pc = "except_e"
    /\ Leave("UnboundLocalError")
    /\ UNCHANGED <<inputvars, parsevars, buildvars, sock, loopvars, log>>

\* line 175: smtp.connect(**server)
Reconnect ==
    /\ pc = "reconnect"
    /\ \/ /\ sock' = "plain"
          /\ log' = Append(log, Event("connect", 0, "ok"))
          /\ pc' = "relogin"
          /\ UNCHANGED raised
       \/ /\ log' = Append(log, Event("connect", 0, "OSError"))
          /\ Leave("OSError")
          /\ UNCHANGED sock
    /\ UNCHANGED <<inputvars, parsevars, buildvars, loopvars>>

\* line 176: smtp.login(**login) on the new connection
Relogin ==
    /\ pc = "relogin"
    /\ \/ /\ log' = Append(log, Event("login", 0, "ok"))
          /\ pc' = "resend"
          /\ UNCHANGED raised
       \/ /\ log' = Append(log, Event("login", 0, "SMTPAuthenticationError"))
          /\ Leave("SMTPAuthenticationError")
    /\ UNCHANGED <<inputvars, parsevars, buildvars, sock, loopvars>>

\* ResendOk with the bug of not counting the retried message
ResendOk_NoCount ==
    /\ pc = "resend"
    /\ log' = Append(log, Event("send", k, "ok"))
    /\ printed' = Append(printed, i)
    /\ pc' = "resleep"
    /\ UNCHANGED <<inputvars, parsevars, buildvars, sock, k, i, raised>>

\* lines 177-180: the retry of emails[k] is accepted
ResendOk ==
    /\ pc = "resend"
    /\ log' = Append(log, Event("send", k, "ok"))
    /\ printed' = Append(printed, i)
    /\ i' = i + 1
    /\ pc' = "resleep"
    /\ UNCHANGED <<inputvars, parsevars, buildvars, sock, k, raised>>

\* line 177 raises (SMTPSenderRefused again, or anything else): no clause
\* catches an exception raised inside a handler
ResendFail ==
    /\ pc = "resend"
    /\ \E e \in {"SMTPSenderRefused", "SMTPException"} :
         /\ log' = Append(log, Event("send", k, e))
         /\ Leave(e)
    /\ UNCHANGED <<inputvars, parsevars, buildvars, sock, loopvars>>

\* Resleep with the bug of staying at the retried message
Resleep_NoAdvance ==
    /\ pc = "resleep"
    /\ \E t \in SleepTimes :
         IF t >= 0
         THEN /\ log' = Append(log, Event("sleep", 0, "ok"))
              /\ pc' = "loop"
              /\ UNCHANGED raised
         ELSE /\ log' = Append(log, Event("sleep", 0, "ValueError"))
              /\ Leave("ValueError")
    /\ UNCHANGED <<inputvars, parsevars, buildvars, sock, loopvars>>

\* lines 181-184: the pacing sleep inside the handler
Resleep ==
    /\ pc = "resleep"
    /\ \E t \in SleepTimes :
         IF t >= 0
         THEN /\ log' = Append(log, Event("sleep", 0, "ok"))
              /\ k' = k + 1
              /\ pc' = "loop"
              /\ UNCHANGED raised
         ELSE /\ log' = Append(log, Event("sleep", 0, "ValueError"))
              /\ Leave("ValueError")
              /\ UNCHANGED k
    /\ UNCHANGED <<inputvars, parsevars, buildvars, sock, i, printed>>

\* line 164: the for loop is exhausted and the with block ends
LoopEnd ==
    /\ pc = "loop"
    /\ k > Len(emails)
    /\ pc' = "exit"
    /\ UNCHANGED <<inputvars, parsevars, buildvars, sock, loopvars, raised, log>>

\* line 160: SMTP.__exit__ sends QUIT and closes the socket, whether the
\* block ended normally or by an exception, which then goes on
WithExit ==
    /\ pc = "exit"
    /\ sock' = "none"
    /\ log' = Append(log, Event("quit", 0, "ok"))
    /\ pc' = "done"
    /\ UNCHANGED <<inputvars, parsevars, buildvars, loopvars, raised>>

Next ==
    \/ Start \/ BuildOne \/ Connect \/ StartTls \/ Login
    \/ SendOk \/ SendRefused \/ SendFail \/ Sleep \/ ExceptE
    \/ Reconnect \/ Relogin \/ ResendOk \/ ResendFail \/ Resleep
    \/ LoopEnd \/ WithExit

Spec == Init /\ [][Next]_vars

(***************************************************************************)
(* The runs of main() up to the end of parse_template, over the template   *)
(* files of at most MaxLines lines.                                        *)
(***************************************************************************)
MaxLines == 4

ParseLineSet ==
    { <<"#", "a">>,                            \* a comment
      <<"<From>", " ", "a", " ">>,             \* markers with their values
      <<"<To>", "b">>,
      <<"<Cc>", "a">>,
      <<"<Subject>", "a">>,
      <<"<Body>">>,
      <<"a">>,                                 \* plain lines
      <<" ", "b", " ">>,
      <<>>,
      <<"<Expressions>", "x", ";", " ", "a">>, \* an expression
      <<"<Expressions>", "x">> }               \* an expression without ";"

ParseFiles == UNION {[1..m -> ParseLineSet] : m \in 0..MaxLines}

InitParse == InitWith(ParseFiles, {<<>>}, {PacingOk})

NextParse == Start

SpecParse == InitParse /\ [][NextParse]_vars

(***************************************************************************)
(* The runs of main() up to the end of the build loop, over one-row tables *)
(* and templates whose Subject is any string of at most MaxLen characters  *)
(* out of braces and the names n and x.                                    *)
(***************************************************************************)
MaxLen == 5

FillChars == {"{", "}", "n", "x"}

FillStrings == UNION {[1..m -> FillChars] : m \in 0..MaxLen}

\* expression tables: none; x = {n}+3; x = '{n}'; x = '{{n}}' (a value
\* with braces); x = 3 with y = {x}+3, which refers to the expression x
FillExprTables ==
    { <<>>,
      << <<S("x"), <<"{", "n", "}", "+", "3">> >> >>,
      << <<S("x"), <<"'", "{", "n", "}", "'">> >> >>,
      << <<S("x"), <<"'", "{", "{", "n", "}", "}", "'">> >> >>,
      << <<S("x"), <<"3">> >>, <<S("y"), <<"{", "x", "}", "+", "3">> >> >> }

RECURSIVE ExprLines(_)
ExprLines(exprs) ==
    IF exprs = <<>> THEN <<>>
    ELSE << <<"<Expressions>">> \o Head(exprs)[1] \o <<";">> \o Head(exprs)[2] >>
             \o ExprLines(Tail(exprs))

FillTemplate(exprs, subject) ==
    ExprLines(exprs) \o << <<"<Subject>">> \o subject, <<"<Body>">>, <<"a">> >>

FillTemplates == {FillTemplate(e, s) : e \in FillExprTables, s \in FillStrings}

\* records: n a number; n a text with braces; no column n; columns n and x
RecBraces == (S("n") :> StrV(<<"{", "x", "}">>))
RecBoth == (S("n") :> StrV(<<"3">>)) @@ (S("x") :> StrV(<<"3">>))
FillRecords == {RecNum, RecBraces, RecOther, RecBoth}

InitFill == InitWith(FillTemplates, Tables(FillRecords, 1, 1), {PacingOk})

NextFill == Start \/ BuildOne

SpecFill == InitFill /\ [][NextFill]_vars

(***************************************************************************)
(* Properties of the dispatch loop, read off the log.                      *)
(***************************************************************************)
IsSend(e) == e.op = "send"
IsSentOk(e) == e.op = "send" /\ e.res = "ok"

\* the indices of the messages the transport accepted, in order
SentMsgs == LET ok == SelectSeq(log, IsSentOk) IN [j \in 1..Len(ok) |-> ok[j].msg]

OneTo(n) == [j \in 1..n |-> j]

\* log[p] is a first send attempt that the server refused with sender-refused
FirstRefused(p) ==
    /\ log[p].op = "send"
    /\ log[p].res = "SMTPSenderRefused"
    /\ \A q \in 1..(p - 1) : ~(log[q].op = "send" /\ log[q].msg = log[p].msg)

\* log[p] is a step that failed, other than a refused first send attempt
Failed(p) == log[p].res # "ok" /\ ~FirstRefused(p)

\* the message main() builds for the j-th row of the table as read
BuiltFor(j) ==
    build_mail(Pdf, PdfName, Signature,
               fill_placeholders(email_parts, csv_read[j], expressions).val)

\* C1: the messages accepted so far are the first ones of emails, in the
\* order of the recipient table and once each, and the counts printed are
\* 1, 2, ..., one per accepted message, retried or not.
C1_DispatchOrderAndCount ==
    /\ SentMsgs = OneTo(Len(SentMsgs))
    /\ Len(SentMsgs) <= Len(emails)
    /\ printed = OneTo(Len(SentMsgs))
    /\ Len(emails) <= Len(csv_read)
    /\ \A j \in 1..Len(emails) : emails[j] = BuiltFor(j)

C1_Witness ==
    /\ pc = "done"
    /\ Len(printed) = 3
    /\ \E p \in DOMAIN log : FirstRefused(p) /\ log[p].msg = 2
    /\ \E p \in DOMAIN log : log[p] = Event("send", 2, "ok")

\* C2: a refused first send attempt of message m is followed by a
\* reconnect, then a login, then one more send of the same m; an accepted
\* retry is counted, followed by the pacing sleep and then by the next
\* message (or the end of the loop); no message is handed to send_message
\* more than twice.
C2_RetryOnce ==
    /\ \A p \in DOMAIN log : FirstRefused(p) =>
         LET n == Len(log)
             okTo(q) == \A m \in (p + 1)..q : log[m].res = "ok"
         IN  /\ (n = p) => pc = "reconnect"
             /\ (n >= p + 1) => log[p + 1].op = "connect"
             /\ (n = p + 1 /\ okTo(p + 1)) => pc = "relogin"
             /\ (n >= p + 2 /\ okTo(p + 1)) => log[p + 2].op = "login"
             /\ (n = p + 2 /\ okTo(p + 2)) => pc = "resend"
             /\ (n >= p + 3 /\ okTo(p + 2)) =>
                    log[p + 3].op = "send" /\ log[p + 3].msg = log[p].msg
             /\ (n = p + 3 /\ okTo(p + 3)) => pc = "resleep" /\ k = log[p].msg
             /\ (n >= p + 3 /\ okTo(p + 3)) => log[p].msg \in {printed[c] : c \in DOMAIN printed}
             /\ (n >= p + 4 /\ okTo(p + 3)) => log[p + 4].op = "sleep"
             /\ (n = p + 4 /\ okTo(p + 4)) =>
                    /\ k = log[p].msg + 1
                    /\ \/ pc = "loop"
                       \/ pc = "exit" /\ log[p].msg = Len(emails)
             /\ (n >= p + 5 /\ okTo(p + 4)) =>
                    \/ log[p + 5].op = "send" /\ log[p + 5].msg = log[p].msg + 1
                    \/ log[p + 5].op = "quit" /\ log[p].msg = Len(emails)
    /\ \A m \in 1..Len(emails) :
         Cardinality({p \in DOMAIN log : log[p].op = "send" /\ log[p].msg = m}) <= 2

C2_Witness ==
    \E p \in DOMAIN log :
        /\ FirstRefused(p)
        /\ Len(log) >= p + 5
        /\ log[p + 3] = Event("send", log[p].msg, "ok")
        /\ log[p + 5].op = "send"
        /\ log[p + 5].msg = log[p].msg + 1

\* C3: after a step that failed, other than a refused first send attempt,
\* nothing more is sent: the only call that can follow is the closing of the
\* session, the loop is left, and the counts printed are those of the
\* messages accepted before.
C3_AbortOnOtherFailure ==
    \A p \in DOMAIN log : Failed(p) =>
        /\ \A q \in (p + 1)..Len(log) : log[q].op = "quit"
        /\ pc \in {"except_e", "exit", "done"}
        /\ k = IF log[p].op = "send" THEN log[p].msg
               ELSE IF log[p].op = "sleep" THEN log[p - 1].msg
               ELSE k
        /\ printed = OneTo(Len(SentMsgs))

C3_Witness ==
    /\ pc = "done"
    /\ Len(emails) = 3
    /\ Len(printed) = 1
    /\ \E p \in DOMAIN log : log[p] = Event("login", 0, "SMTPAuthenticationError")
    /\ \E p \in DOMAIN log : FirstRefused(p) /\ log[p].msg = 2

\* C4: one SMTP object is made, before any other call on the transport,
\* and in every terminal state its connection is closed; when it was opened
\* the last call of the run is the closing one.
C4_SessionReleased ==
    /\ \A p \in DOMAIN log : log[p].op = "open" <=> p = 1
    /\ sock # "none" => pc \notin {"start", "build", "done"}
    /\ pc = "done" => sock = "none"
    /\ (pc = "done" /\ log # <<>> /\ log[1].res = "ok") => log[Len(log)].op = "quit"

C4_Witness ==
    /\ pc = "done"
    /\ raised = "SMTPSenderRefused"
    /\ sock = "none"
    /\ Len(printed) >= 1

\* C6: nothing is called on the transport before every row of the table
\* has its built message; when the fill of a row fails the run is over with
\* no call made on the transport.
C6_BuildAllBeforeDispatch ==
    /\ Len(emails) <= Len(csv_read)
    /\ log # <<>> => Len(emails) = Len(csv_read) /\ row = Len(csv_read) + 1
    /\ sock # "none" => Len(emails) = Len(csv_read)
    /\ (pc = "done" /\ row <= Len(csv_read)) => log = <<>> /\ raised # "none"

C6_Witness ==
    /\ pc = "done"
    /\ Len(csv_read) = 3
    /\ row \in {2, 3}
    /\ Len(emails) = row - 1
    /\ raised = "NameError"
    /\ log = <<>>

\* C10: every login is issued on a connection that was upgraded with
\* STARTTLS since it was opened or reconnected.
C10_LoginAfterStartTls ==
    \A p \in DOMAIN log : log[p].op = "login" =>
        \E q \in 1..(p - 1) :
            /\ log[q] = Event("starttls", 0, "ok")
            /\ \A m \in (q + 1)..(p - 1) : log[m].op \notin {"open", "connect"}

(***************************************************************************)
(* Properties of fill_placeholders, on the runs of SpecFill: the table has *)
(* one row, and Filled says that fill_placeholders has been called on it.  *)
(***************************************************************************)
Filled == pc \in {"build", "done"} /\ (row = 2 \/ raised # "none")

ExprNames == Keys(expressions)

\* some expression refers to a name that is no column of the record, or
\* some section to a name that is neither a column nor an expression
\* (a reference being what list_variables finds)
RefersToAbsent ==
    \/ \E j \in 1..Len(expressions) :
         ~(list_variables(expressions[j][2]) \subseteq DOMAIN csv_read[1])
    \/ \E p \in PartNames :
         ~(list_variables(email_parts[p]) \subseteq (DOMAIN csv_read[1]) \cup ExprNames)

IsIdentifier(name) ==
    /\ name # <<>>
    /\ name[1] \in Letters
    /\ \A p \in DOMAIN name : name[p] \in Letters \cup Digits

\* s has a substring of the form {identifier}
HasPlaceholder(s) == \E name \in list_variables(s) : IsIdentifier(name)

\* C5: when an expression or a section refers to a name absent from the
\* mapping available to it, fill_placeholders raises and returns no
\* sections (stated for any exception raised, not only the KeyError).
C5_UndefinedReferenceRaises ==
    (Filled /\ RefersToAbsent) =>
        /\ raised # "none"
        /\ filled = NoSections
        /\ emails = <<>>

\* C7: when every name referred to is supplied and fill_placeholders
\* returns, no returned section has a substring of the form {identifier}.
C7_NoPlaceholderSurvives ==
    (Filled /\ ~RefersToAbsent /\ raised = "none") =>
        \A p \in PartNames : ~HasPlaceholder(filled[p])

\* C9: fill_placeholders leaves the record, as held in csv_data, with the
\* keys and values it had when it was read, and leaves the sections and the
\* expression table as parse_template returned them.
C9_RecordsImmutable ==
    pc # "start" =>
        /\ csv_data = csv_read
        /\ raised = "none" =>
             \E st \in {parse_template(template)} :
                 email_parts = st.email_parts /\ expressions = st.expressions

(***************************************************************************)
(* Properties of parse_template, on the runs of SpecParse.  The lines of   *)
(* the file are classified by their first token once trimmed.              *)
(***************************************************************************)
Trimmed(j) == strip(template[j])
IsComment(line) == At(line, 1) = "#"
IsSectionMarker(line) == At(line, 1) \in SectionMarkers
IsBodyMarker(line) == At(line, 1) = "<Body>"
IsPlain(line) ==
    At(line, 1) \notin SectionMarkers \cup {"#", "<Expressions>", "<Body>"}

\* line j comes after a body marker
AfterBodyMarker(j) == \E b \in 1..(j - 1) : IsBodyMarker(Trimmed(b))

\* Body is the current section when line j is read: a body marker precedes
\* it with no section marker in between
BodyActive(j) ==
    \E b \in 1..(j - 1) :
        /\ IsBodyMarker(Trimmed(b))
        /\ \A m \in (b + 1)..(j - 1) : ~IsSectionMarker(Trimmed(m))

\* the plain lines among the first j whose index is in the set at, trimmed,
\* each with a line break
RECURSIVE Collected(_, _)
Collected(j, at) ==
    IF j = 0 THEN <<>>
    ELSE Collected(j - 1, at)
           \o (IF IsPlain(Trimmed(j)) /\ j \in at THEN Trimmed(j) \o <<"\n">> ELSE <<>>)

\* the trimmed rest of the last marker line of the section, or the empty
\* string when there is none
LastValue(part) ==
    LET at == {j \in DOMAIN template :
                 IsSectionMarker(Trimmed(j)) /\ PartOf(Trimmed(j)[1]) = part}
    IN  IF at = {} THEN <<>>
        ELSE LET j == CHOOSE j \in at : \A m \in at : m <= j
             IN  strip(Tail(Trimmed(j)))

HeaderParts == PartNames \ {"Body"}

\* C8 as amended: the four header sections hold the trimmed rest of the
\* last marker line of their kind, and Body is the concatenation of the
\* trimmed plain lines read while Body is the current section, that is
\* after a body marker and before the next section marker.
C8_BodyWhileActive ==
    pc = "build" =>
        /\ email_parts["Body"] = Collected(Len(template), {j \in DOMAIN template : BodyActive(j)})
        /\ \A part \in HeaderParts : email_parts[part] = LastValue(part)

\* C8 as stated: Body holds every plain line that follows a body marker,
\* up to the end of the file, also after a later section marker.
C8_BodyToEndOfFile ==
    pc = "build" =>
        /\ email_parts["Body"] = Collected(Len(template), {j \in DOMAIN template : AfterBodyMarker(j)})
        /\ \A part \in HeaderParts : email_parts[part] = LastValue(part)

C8_Witness ==
    /\ pc = "build"
    /\ email_parts["Body"] # <<>>
    /\ \E b, m, j \in DOMAIN template :
         /\ b < m /\ m < j
         /\ IsBodyMarker(Trimmed(b))
         /\ IsSectionMarker(Trimmed(m))
         /\ IsPlain(Trimmed(j))
         /\ email_parts[PartOf(Trimmed(m)[1])] = strip(Tail(Trimmed(m)))

====
